---- MODULE Spec2Model ----
(***************************************************************************)
(* LazyCalculator (src/main.cpp): a postfix calculator over the literals   *)
(* '0', '2', '4' whose operators live in a registry (definedOperators)     *)
(* that define() extends.  parse() builds a deferred computation (a Lazy), *)
(* calculate() builds one and forces it.                                   *)
(*                                                                         *)
(* A character is a one-character string, a token string a sequence of    *)
(* characters.  A rule (a std::function<int(Lazy, Lazy)>) is named by the  *)
(* lambda or function of the source it is.  A Lazy is the closure parse    *)
(* builds: <<"lit", c, pos>> for the lambda of line 32 and                 *)
(* <<"bind", fn, b, a, pos>> for the bind expression of line 46, where pos *)
(* (the index of the character that built it) is a ghost field that tells  *)
(* occurrences apart in the trace of a force.                              *)
(***************************************************************************)
EXTENDS Integers, Sequences, FiniteSets, TLC

\* ------------------------------------------------------------------ bounds
MaxLen == 3
MaxForces == 2
MaxChain == 3
MaxHeldDefines == 1

\* --------------------------------------------------------------- constants
\* int: INT_MAX and INT_MIN of a 32-bit int.
IntMax == 2147483647
IntMin == -IntMax - 1

\* ------------------------------------------------------------- characters
Literals == {"0", "2", "4"}

\* c - '0'
CharVal(c) == CASE c = "0" -> 0 [] c = "2" -> 2 [] c = "4" -> 4

IsDigit(c) == c \in {"0", "1", "2", "3", "4", "5", "6", "7", "8", "9"}

\* c == '2' || c == '4' || c == '0'
IsLiteral(c) == c = "2" \/ c = "4" \/ c = "0"

\* ------------------------------------------------------------------ rules
\* The rules whose two operand calls are operands of one arithmetic
\* expression: C++ leaves the order of the two calls unspecified.
UnseqRules == {"add", "sub", "mul", "div", "bang", "bang158"}

PlaceholderRules == {"add0", "add2", "add4"}

Rules == UnseqRules \cup PlaceholderRules
           \cup {"comma", "pomidor", "manytimes", "quest", "one", "zero165"}

\* The orders a build may give the operand calls of the unsequenced rules
\* among fns: one order for each rule (each is one expression of the source).
EvalOrders(fns) == [fns \cap UnseqRules -> {"LR", "RL"}]

\* ------------------------------------------------------------------ Lazy
Nil == <<>>

Lit(c, p) == <<"lit", c, p>>

BindSwapped(fn, b, a, p) == <<"bind", fn, a, b, p>>

\* std::bind(definedOperators.at(c), b, a): a copy of the rule and of both
\* operands; forcing it calls fn(b, a).
Bind(fn, b, a, p) == <<"bind", fn, b, a, p>>

IsLit(l) == l[1] = "lit"
Pos(l) == l[Len(l)]
LitChar(l) == l[2]
RuleOf(l) == l[2]
LeftOf(l) == l[3]
RightOf(l) == l[4]

\* The rules a Lazy holds copies of.
RECURSIVE RulesIn(_)
RulesIn(l) ==
    IF IsLit(l) THEN {}
    ELSE {RuleOf(l)} \cup RulesIn(LeftOf(l)) \cup RulesIn(RightOf(l))

\* The positions of the closures a Lazy holds, itself included.
RECURSIVE Positions(_)
Positions(l) ==
    IF IsLit(l) THEN {Pos(l)}
    ELSE {Pos(l)} \cup Positions(LeftOf(l)) \cup Positions(RightOf(l))

\* ------------------------------------------------------------- arithmetic
Abs(x) == IF x < 0 THEN -x ELSE x

FloorDiv(x, y) == x \div y

\* int / int of C++: the quotient truncated toward zero (y # 0).
TruncDiv(x, y) ==
    LET q == Abs(x) \div Abs(y)
    IN  IF (x < 0) = (y < 0) THEN q ELSE -q

\* Whether x + y, x - y, x * y, x / y leave the range of int (a signed
\* overflow), decided without computing the result.
AddOverflows(x, y) ==
    \/ y > 0 /\ x > IntMax - y
    \/ y < 0 /\ x < IntMin - y

SubOverflows(x, y) ==
    \/ y < 0 /\ x > IntMax + y
    \/ y > 0 /\ x < IntMin + y

MulOverflows(x, y) ==
    IF x = 0 \/ y = 0 THEN FALSE
    ELSE IF x = IntMin THEN y # 1
    ELSE IF y = IntMin THEN x # 1
    ELSE LET ax == Abs(x)
             ay == Abs(y)
             q  == IntMax \div ay
         IN  IF (x < 0) = (y < 0) THEN ax > q
             ELSE ax > q /\ ~(ax = q + 1 /\ IntMax % ay = ay - 1)

DivOverflows(x, y) == x = IntMin /\ y = -1

\* The value of an arithmetic rule on the operand values x (first argument)
\* and y (second argument); a division by zero or a signed overflow is
\* undefined behaviour (ub).
Arith(fn, x, y) ==
    LET bad == CASE fn \in {"add", "add0", "add2", "add4"} -> AddOverflows(x, y)
                 [] fn = "sub" -> SubOverflows(x, y)
                 [] fn = "mul" -> MulOverflows(x, y)
                 [] fn = "div" -> y = 0 \/ DivOverflows(x, y)
                 [] fn \in {"bang", "bang158"} ->
                      MulOverflows(x, 10) \/ AddOverflows(x * 10, y)
        exact == CASE fn \in {"add", "add0", "add2", "add4"} -> x + y
                   [] fn = "sub" -> x - y
                   [] fn = "mul" -> x * y
                   [] fn = "div" -> TruncDiv(x, y)
                   [] fn \in {"bang", "bang158"} -> x * 10 + y
    IN  [val |-> IF bad THEN 0 ELSE exact, ub |-> bad]

\* ------------------------------------------------------------------ force
\* The state a force runs in: the value the last call returned, the number
\* of "pomidor" the buffer holds, the positions of the closures called so
\* far (a ghost), and whether undefined behaviour has happened.
ForceState(buf) == [val |-> 0, buf |-> buf, trace |-> <<>>, ub |-> FALSE]

RECURSIVE Force(_, _, _)
RECURSIVE Times(_, _, _, _, _)
RECURSIVE TimesOneMore(_, _, _, _, _)

TimesOneMore(n, fn, i, st, ord) ==
    IF st.ub \in BOOLEAN /\ i <= n
    THEN TimesOneMore(n, fn, i + 1, Force(fn, st, ord), ord)
    ELSE st

\* operator*(int n, fn), lines 80-86: for (int i = 0; i < n; i++) fn();
\* (The state is read at every turn, so that the turns are evaluated one
\* after the other and not nested in one another.)
Times(n, fn, i, st, ord) ==
    IF st.ub \in BOOLEAN /\ i < n
    THEN Times(n, fn, i + 1, Force(fn, st, ord), ord)
    ELSE st

\* a() + b(), a() - b(), a() * b(), a() / b(), a() * 10 + b(): the two calls
\* in the order ord gives the rule, then the arithmetic.  (A placeholder rule
\* is never bound into a Lazy, a literal character never reaches the lookup
\* of line 35; its order is left at left-right.)
Unsequenced(fn, a, b, st, ord) ==
    LET lr == fn \in PlaceholderRules \/ ord[fn] = "LR"
        s1 == Force(IF lr THEN a ELSE b, st, ord)
        s2 == Force(IF lr THEN b ELSE a, s1, ord)
        r  == Arith(fn, IF lr THEN s1.val ELSE s2.val,
                        IF lr THEN s2.val ELSE s1.val)
    IN  [s2 EXCEPT !.val = r.val, !.ub = @ \/ r.ub]

CommaOnlyRight(a, b, st, ord) == Force(b, st, ord)

\* a(); return b();
Comma(a, b, st, ord) == Force(b, Force(a, st, ord), ord)

\* buffer += "pomidor"; return 0;
Pomidor(st) == [st EXCEPT !.buf = @ + 1, !.val = 0]

\* manytimes(n, fn): (n() * fn)(); return 0;
Manytimes(n, fn, st, ord) ==
    LET s1 == Force(n, st, ord)
    IN  [Times(s1.val, fn, 0, s1, ord) EXCEPT !.val = 0]

QuestEager(a, b, st, ord) ==
    LET s1 == Force(a, st, ord)
        s2 == Force(b, s1, ord)
    IN  IF s1.val # 0 THEN s2 ELSE [s2 EXCEPT !.val = 0]

\* return a() ? b() : 0;
Quest(a, b, st, ord) ==
    LET s1 == Force(a, st, ord)
    IN  IF s1.val # 0 THEN Force(b, s1, ord) ELSE [s1 EXCEPT !.val = 0]

\* fn(x, y): the body of the rule fn on the operands x and y.
Apply(fn, x, y, st, ord) ==
    CASE fn \in UnseqRules \cup PlaceholderRules -> Unsequenced(fn, x, y, st, ord)
      [] fn = "comma" -> Comma(x, y, st, ord)
      [] fn = "pomidor" -> Pomidor(st)
      [] fn = "manytimes" -> Manytimes(x, y, st, ord)
      [] fn = "quest" -> Quest(x, y, st, ord)
      [] fn = "one" -> [st EXCEPT !.val = 1]
      [] fn = "zero165" -> [st EXCEPT !.val = 0]

\* l(): calling the closure l.
Force(l, st, ord) ==
    LET called == [st EXCEPT !.trace = Append(@, Pos(l))]
    IN  IF IsLit(l) THEN [called EXCEPT !.val = CharVal(LitChar(l))]
        ELSE Apply(RuleOf(l), LeftOf(l), RightOf(l), called, ord)

\* --------------------------------------------------------------- registry
\* definedOperators.find(c) != definedOperators.end()
Registered(reg, c) == c \in DOMAIN reg

InsertNothing(reg, c, fn) == reg

\* definedOperators.insert({c, fn}) of a key the map does not hold.
Insert(reg, c, fn) == [x \in DOMAIN reg \cup {c} |-> IF x = c THEN fn ELSE reg[x]]

DefineOverwrites(reg, c, fn) == [ok |-> TRUE, reg |-> Insert(reg, c, fn)]

\* define(c, fn) on the registry reg: whether it returns normally, and the
\* registry it leaves.
DefineResult(reg, c, fn) ==
    IF Registered(reg, c) THEN [ok |-> FALSE, reg |-> reg]
    ELSE [ok |-> TRUE, reg |-> Insert(reg, c, fn)]

ConstructorWithoutLiterals ==
    << <<"+", "add">>, <<"-", "sub">>, <<"*", "mul">>, <<"/", "div">> >>

\* The define calls of the constructor, in order.
ConstructorDefines ==
    << <<"+", "add">>, <<"-", "sub">>, <<"*", "mul">>, <<"/", "div">>,
       <<"0", "add0">>, <<"2", "add2">>, <<"4", "add4">> >>

RECURSIVE DefineAll(_, _)
DefineAll(reg, calls) ==
    IF calls = <<>> THEN reg
    ELSE DefineAll(DefineResult(reg, Head(calls)[1], Head(calls)[2]).reg,
                   Tail(calls))

EmptyRegistry == [x \in {} |-> "add"]

\* The registry LazyCalculator() leaves.
Constructed == DefineAll(EmptyRegistry, ConstructorDefines)

\* ----------------------------------------------------------------- inputs
\* The define calls of main that add an operator, in its order (lines 111,
\* 115, 119, 133, 138, 145).
MainDefines ==
    << <<"!", "bang">>, <<",", "comma">>, <<"P", "pomidor">>,
       <<"$", "manytimes">>, <<"?", "quest">>, <<"1", "one">> >>

\* Define calls on a symbol that is, or may be, taken: those of lines 158
\* and 165, and one on a built-in.
Redefines == { <<"!", "bang158">>, <<"0", "zero165">>, <<"+", "comma">> }

\* The define calls a caller makes on the registry reg: the calls of
\* MainDefines up to the first it has not made yet, and any of Redefines.
DefineCalls(reg) ==
    LET made == Cardinality(DOMAIN reg \ DOMAIN Constructed)
        upto == IF made < Len(MainDefines) THEN made + 1 ELSE Len(MainDefines)
    IN  {MainDefines[k] : k \in 1..upto} \cup Redefines

EnumChars == {"0", "2", "4", "-", "/", ",", "P"}

RECURSIVE StringsUpTo(_)
StringsUpTo(n) ==
    IF n = 0 THEN {<<>>}
    ELSE LET shorter == StringsUpTo(n - 1)
         IN  shorter \cup {Append(w, c) : w \in shorter, c \in EnumChars}

\* "42P" k times, then k - 1 commas.
RECURSIVE Pomidors(_)
Pomidors(k) == IF k = 0 THEN <<>> ELSE <<"4", "2", "P">> \o Pomidors(k - 1)
RECURSIVE Commas(_)
Commas(k) == IF k = 0 THEN <<>> ELSE <<",">> \o Commas(k - 1)

\* The token strings of main.
MainStrings ==
    { <<"0">>, <<"2">>, <<"4">>,
      <<"4", "2", "+">>, <<"2", "4", "-">>, <<"4", "2", "*">>, <<"4", "2", "/">>,
      <<"4", "2", "-", "2", "-">>, <<"2", "4", "2", "-", "-">>,
      <<"2", "2", "+", "2", "-", "2", "*", "2", "/", "0", "-">>,
      <<"4", "2", "!">>,
      <<"4", "2", "!", "4", "2", "P", "$">>,
      <<"0", "4", "2", "P", "?">>,
      <<"0", "4", "2", "!", "4", "2", "P", "$", "?">>,
      <<"0", "2", "1">>,
      <<>>, <<"4", "2">>, <<"4", "+">>, <<"4", "2", "4", "+">>,
      <<"0", "2", "&">> }

\* The token string of lines 123-126.
MainPomidorString ==
    <<"4", "2", "P", "4", "2", "P", "4", "2", "P", "4", "2", "P", "4", "2",
    "P", "4", "2", "P", "4", "2", "P", "4", "2", "P", "4", "2", "P", "4",
    "2", "P", "4", "2", "P", "4", "2", "P", "4", "2", "P", "4", "2", "P",
    "4", "2", "P", "4", "2", "P", ",", ",", ",", ",", "4", "2", "P", "4",
    "2", "P", "4", "2", "P", "4", "2", "P", "4", "2", "P", ",", ",", ",",
    "4", "2", "P", ",", "4", "2", "P", ",", "4", "2", "P", "4", "2", "P",
    ",", ",", ",", ",", "4", "2", "P", ",", ",", ",", "4", "2", "P", ",",
    "4", "2", "P", ",", "4", "2", "P", ",", ",", "4", "2", "P", ",", ",",
    ",", "4", "2", "P", ",", "4", "2", "P", "4", "2", "P", "4", "2", "P",
    "4", "2", "P", "4", "2", "P", "4", "2", "P", "4", "2", "P", "4", "2",
    "P", ",", ",", ",", "4", "2", "P", ",", "4", "2", "P", ",", "4", "2",
    "P", ",", ",", ",", ",", ",", ",", ",", ",", ",", ",", ",", ",">>

\* Further token strings, for the cases main does not have.
Probes ==
    { <<"&">>, <<"4", "+", "&">>, <<"4", "2", "&">>,
      <<"2", "0", "/">>, <<"2", "0", "2", "-", "/">>,
      <<"0", "2", "-", "4", "/">>, <<"0", "4", "-", "4", "0", "2", "-", "/", "/">>,
      <<"4", "2", "P", "4", "2", "P", "+">>,
      <<"4", "2", "P", "4", "2", "P", ",", "4", "2", "P", "-">>,
      <<"4", "2", "P", "4", "2", "P", "!">>,
      <<"4", "2", "P", "4", "2", "P", ",">>,
      <<"2", "4", "2", "P", "?">>,
      <<"2", "4", "2", "P", "$">>,
      <<"0", "4", "2", "P", "$">>,
      <<"0", "2", "-", "4", "2", "P", "$">>,
      <<"2", "4", "2", "P", "4", "2", "P", ",", "$">>,
      <<"4", "2", "P", "2", "4", "2", "P", "$", ",">>,
      <<"4", "2", "P", "0", "4", "2", "P", "?", ",">>,
      <<"0", "2", "1", "4", "+">>,
      <<"4", "4", "!", "4", "!", "4", "!", "4", "!", "4", "!", "4", "!", "4", "!",
        "4", "!", "4", "!">> }

\* The well-formed strings of two subtractions or divisions on 2 and 4.
Nested ==
    LET ops  == {"-", "/"}
        lits == {"2", "4"}
    IN  {<<x, y, o, z, q>> : x \in lits, y \in lits, z \in lits,
                             o \in ops, q \in ops}
          \cup {<<x, y, z, o, q>> : x \in lits, y \in lits, z \in lits,
                                    o \in ops, q \in ops}

PomidorChains == {Pomidors(k) \o Commas(k - 1) : k \in 1..MaxChain}

Inputs ==
    StringsUpTo(MaxLen) \cup MainStrings \cup {MainPomidorString}
        \cup Probes \cup PomidorChains \cup Nested

\* ------------------------------------------------------------------ state
VARIABLES
    definedOperators, \* the registry: character -> rule
    pc,               \* "idle" (in the caller, nothing kept of the call
                      \* before), "returned" (in the caller, after a call),
                      \* "scan" (in parse's loop), "force" (calculate is
                      \* about to call the Lazy), "crashed" (trapped)
    call,             \* the call in progress or last made
    s,                \* the token string of the last parse / calculate
    i,                \* parse: the index of the character being scanned
    stackOfLazy,      \* parse: the stack, top last
    exc,              \* the exception the last call threw, or "none"
    lazy,             \* the Lazy the last parse returned, or Nil
    buffer,           \* the number of "pomidor" in the caller's buffer
    value,            \* the value the last force returned
    trace,            \* ghost: the closures the last force called, by position
    forced,           \* ghost: the Lazy the last force called, or Nil
    undefined,        \* the last force had undefined behaviour
    heldDefines,      \* ghost: the define calls since parse returned lazy
    forces            \* ghost: the calls of lazy since parse returned it

vars == <<definedOperators, pc, call, s, i, stackOfLazy, exc, lazy, forced,
          buffer, value, trace, undefined, heldDefines, forces>>

Init ==
    /\ definedOperators = Constructed
    /\ pc = "idle"
    /\ call = <<"constructor">>
    /\ s = <<>>
    /\ i = 0
    /\ stackOfLazy = <<>>
    /\ exc = "none"
    /\ lazy = Nil
    /\ forced = Nil
    /\ buffer = 0
    /\ value = 0
    /\ trace = <<>>
    /\ undefined = FALSE
    /\ heldDefines = 0
    /\ forces = 0

\* ---------------------------------------------------------------- actions
\* define(c, fn), lines 60-66, called by a caller that keeps nothing of the
\* call before or that holds the Lazy a parse returned.
Define(c, fn) ==
    /\ \/ pc = "idle" /\ heldDefines' = 0
       \/ /\ pc = "returned" /\ lazy # Nil
          /\ heldDefines < MaxHeldDefines
          /\ heldDefines' = heldDefines + 1
    /\ pc' = "returned"
    /\ LET r == DefineResult(definedOperators, c, fn)
       IN  /\ definedOperators' = r.reg
           /\ exc' = IF r.ok THEN "none" ELSE "OperatorAlreadyDefined"
    /\ call' = <<"define", c, fn>>
    /\ UNCHANGED <<s, i, stackOfLazy, lazy, forced, buffer, value, trace,
                   undefined, forces>>

\* The entry of parse(str) (line 29), called by the caller or by calculate
\* (line 57), by a caller that keeps nothing of the call before and starts
\* with an empty buffer.
Enter(kind, str) ==
    /\ pc = "idle"
    /\ buffer = 0
    /\ call' = <<kind>>
    /\ s' = str
    /\ i' = 1
    /\ stackOfLazy' = <<>>
    /\ pc' = "scan"
    /\ UNCHANGED <<definedOperators, exc, lazy, forced, buffer, value, trace,
                   undefined, heldDefines, forces>>

Parse(str) == Enter("parse", str)

Calculate(str) == Enter("calculate", str)

UnderflowNever(stk) == FALSE

\* stackOfLazy.size() < 2
Underflow(stk) == Len(stk) < 2

WrongHeightOnlyEmpty(stk) == Len(stk) = 0

\* stackOfLazy.size() != 1
WrongHeight(stk) == Len(stk) # 1

Push(stk, l) == Append(stk, l)
Top(stk) == stk[Len(stk)]
Pop(stk) == SubSeq(stk, 1, Len(stk) - 1)

ThrowAfterInsert(e) ==
    /\ exc' = e
    /\ pc' = "returned"
    /\ stackOfLazy' = <<>>
    /\ definedOperators' = IF e = "UnknownOperator"
                           THEN Insert(definedOperators, s[i], "add")
                           ELSE definedOperators
    /\ UNCHANGED <<call, s, i, lazy, forced, buffer, value, trace, undefined,
                   heldDefines, forces>>

Throw(e) ==
    /\ exc' = e
    /\ pc' = "returned"
    /\ stackOfLazy' = <<>>
    /\ UNCHANGED <<definedOperators, call, s, i, lazy, forced, buffer, value,
                   trace, undefined, heldDefines, forces>>

ScanCharSizeFirst(reg, stk, c, p) ==
    IF IsLiteral(c) THEN [exc |-> "none", stk |-> Push(stk, Lit(c, p))]
    ELSE IF Underflow(stk) THEN [exc |-> "SyntaxError", stk |-> stk]
    ELSE IF ~Registered(reg, c) THEN [exc |-> "UnknownOperator", stk |-> stk]
    ELSE [exc |-> "none",
          stk |-> Push(Pop(Pop(stk)),
                       Bind(reg[c], Top(Pop(stk)), Top(stk), p))]

ScanCharPopsOnce(reg, stk, c, p) ==
    IF IsLiteral(c) THEN [exc |-> "none", stk |-> Push(stk, Lit(c, p))]
    ELSE IF ~Registered(reg, c) THEN [exc |-> "UnknownOperator", stk |-> stk]
    ELSE IF Underflow(stk) THEN [exc |-> "SyntaxError", stk |-> stk]
    ELSE [exc |-> "none",
          stk |-> Push(Pop(stk), Bind(reg[c], Top(Pop(stk)), Top(stk), p))]

ScanCharSkipsUnderflow(reg, stk, c, p) ==
    IF IsLiteral(c) THEN [exc |-> "none", stk |-> Push(stk, Lit(c, p))]
    ELSE IF ~Registered(reg, c) THEN [exc |-> "UnknownOperator", stk |-> stk]
    ELSE IF Underflow(stk) THEN [exc |-> "none", stk |-> stk]
    ELSE [exc |-> "none",
          stk |-> Push(Pop(Pop(stk)),
                       Bind(reg[c], Top(Pop(stk)), Top(stk), p))]

ScanCharLookupFirst(reg, stk, c, p) ==
    IF ~Registered(reg, c)
    THEN IF IsLiteral(c) THEN [exc |-> "none", stk |-> Push(stk, Lit(c, p))]
         ELSE [exc |-> "UnknownOperator", stk |-> stk]
    ELSE IF Underflow(stk) THEN [exc |-> "SyntaxError", stk |-> stk]
    ELSE [exc |-> "none",
          stk |-> Push(Pop(Pop(stk)),
                       Bind(reg[c], Top(Pop(stk)), Top(stk), p))]

\* The body of the loop of line 30 on the character c, the p-th of the
\* string: the exception it throws, or "none" and the stack it leaves.
ScanChar(reg, stk, c, p) ==
    IF IsLiteral(c) THEN [exc |-> "none", stk |-> Push(stk, Lit(c, p))]
    ELSE IF ~Registered(reg, c) THEN [exc |-> "UnknownOperator", stk |-> stk]
    ELSE IF Underflow(stk) THEN [exc |-> "SyntaxError", stk |-> stk]
    ELSE LET a == Top(stk)
             b == Top(Pop(stk))
             f == Bind(reg[c], b, a, p)
         IN  [exc |-> "none", stk |-> Push(Pop(Pop(stk)), f)]

\* One turn of the loop of line 30, on the character s[i].
ParseStep ==
    /\ pc = "scan"
    /\ i <= Len(s)
    /\ LET r == ScanChar(definedOperators, stackOfLazy, s[i], i)
       IN  IF r.exc # "none" THEN Throw(r.exc)
           ELSE /\ stackOfLazy' = r.stk
                /\ i' = i + 1
                /\ UNCHANGED <<definedOperators, pc, call, s, exc, lazy,
                               forced, buffer, value, trace, undefined,
                               heldDefines, forces>>

AfterParseAlwaysForce(kind) == "force"

AfterParseNeverForce(kind) == "returned"

\* Where parse returns to: into calculate, which calls the Lazy (line 57),
\* or to the caller.
AfterParse(kind) == IF kind = "calculate" THEN "force" ELSE "returned"

\* Lines 50-53, after the last character.
ParseEnd ==
    /\ pc = "scan"
    /\ i > Len(s)
    /\ IF WrongHeight(stackOfLazy)
       THEN Throw("SyntaxError")
       ELSE /\ lazy' = Top(stackOfLazy)
            /\ stackOfLazy' = <<>>
            /\ pc' = AfterParse(call[1])
            /\ UNCHANGED <<definedOperators, call, s, i, exc, forced, buffer,
                           value, trace, undefined, heldDefines, forces>>

\* What a force that had undefined behaviour may leave: a trap, or a value.
UndefinedOutcomes == {[trap |-> TRUE, val |-> 0]}
                       \cup {[trap |-> FALSE, val |-> v] : v \in {-1, 0, 1}}

\* One call lazy(), under some operand order of the build; what undefined
\* behaviour leaves, if there is any, is the build's too.
Forced ==
    \E ord \in EvalOrders(RulesIn(lazy)) :
        LET r == Force(lazy, ForceState(buffer), ord)
        IN  \E out \in IF r.ub THEN UndefinedOutcomes
                                ELSE {[trap |-> FALSE, val |-> r.val]} :
                /\ forced' = lazy
                /\ trace' = r.trace
                /\ undefined' = r.ub
                /\ buffer' = r.buf
                /\ value' = out.val
                /\ pc' = IF out.trap THEN "crashed" ELSE "returned"
                /\ forces' = forces + 1

\* calculate, line 57: the call of the Lazy parse returned, a temporary.
CalculateForce ==
    /\ pc = "force"
    /\ Forced
    /\ lazy' = Nil
    /\ UNCHANGED <<definedOperators, call, s, i, stackOfLazy, exc, heldDefines>>

ForceLazyMemo ==
    /\ pc = "returned"
    /\ lazy # Nil
    /\ forces < MaxForces
    /\ IF forces = 0 THEN Forced
       ELSE /\ forces' = forces + 1
            /\ UNCHANGED <<pc, forced, trace, undefined, buffer, value>>
    /\ UNCHANGED <<definedOperators, call, s, i, stackOfLazy, exc, lazy,
                   heldDefines>>

\* The caller calls the Lazy a parse returned.
ForceLazy ==
    /\ pc = "returned"
    /\ lazy # Nil
    /\ forces < MaxForces
    /\ Forced
    /\ UNCHANGED <<definedOperators, call, s, i, stackOfLazy, exc, lazy,
                   heldDefines>>

\* The caller lets go of what the call before left (its Lazy, its result)
\* and clears the buffer (line 132).
Discard ==
    /\ pc = "returned"
    /\ pc' = "idle"
    /\ call' = <<"none">>
    /\ s' = <<>>
    /\ i' = 0
    /\ exc' = "none"
    /\ lazy' = Nil
    /\ forced' = Nil
    /\ buffer' = 0
    /\ value' = 0
    /\ trace' = <<>>
    /\ undefined' = FALSE
    /\ heldDefines' = 0
    /\ forces' = 0
    /\ UNCHANGED <<definedOperators, stackOfLazy>>

Next ==
    \/ pc \in {"idle", "returned"}
          /\ \E d \in DefineCalls(definedOperators) : Define(d[1], d[2])
    \/ pc = "idle" /\ \E str \in Inputs : Parse(str)
    \/ pc = "idle" /\ \E str \in Inputs : Calculate(str)
    \/ ParseStep
    \/ ParseEnd
    \/ CalculateForce
    \/ ForceLazy
    \/ Discard

Spec == Init /\ [][Next]_vars

\* ================================================================ claims
\* The last call was parse or calculate, and its parse is over.
ParseOver == call[1] \in {"parse", "calculate"} /\ pc \notin {"idle", "scan"}

\* The number of literals less the number of other characters among the
\* first k characters of str.
Height(str, k) ==
    LET lits == Cardinality({j \in 1..k : str[j] \in Literals})
    IN  lits - (k - lits)

\* Some operator of str is scanned on fewer than two computations.
UnderflowsIn(str) ==
    \E k \in 1..Len(str) : str[k] \notin Literals /\ Height(str, k - 1) < 2

AllRegistered(str, reg) ==
    \A k \in 1..Len(str) : str[k] \in Literals \/ str[k] \in DOMAIN reg

\* C1: over token strings whose non-literal characters are all registered,
\* the parse of parse and of calculate throws SyntaxError exactly when an
\* operator is scanned on fewer than two computations or the stack does not
\* hold exactly one computation after the last character, and succeeds
\* otherwise; "", "42", "4+" and "424+" throw SyntaxError.
C1_SyntaxErrorExactly ==
    ParseOver /\ AllRegistered(s, definedOperators) =>
        /\ exc = "SyntaxError" <=> (UnderflowsIn(s) \/ Height(s, Len(s)) # 1)
        /\ exc \in {"SyntaxError", "none"}
        /\ s \in {<<>>, <<"4", "2">>, <<"4", "+">>, <<"4", "2", "4", "+">>}
             => exc = "SyntaxError"

C1_Witness ==
    /\ ParseOver
    /\ AllRegistered(s, definedOperators)
    /\ s = <<"4", "2", "4", "+">>
    /\ exc = "SyntaxError"

\* C2: when parse scans a character that is neither a literal nor
\* registered, that step throws UnknownOperator, whatever the height of the
\* stack (fewer than two computations included); "02&" and "&" throw
\* UnknownOperator.
C2_UnknownOperatorFirst ==
    [][ /\ ( pc = "scan" /\ i <= Len(s)
             /\ s[i] \notin Literals /\ s[i] \notin DOMAIN definedOperators )
           => ( exc' = "UnknownOperator" /\ pc' = "returned" )
        /\ ( ParseOver' /\ s' \in {<<"0", "2", "&">>, <<"&">>} )
           => exc' = "UnknownOperator"
      ]_vars

\* "&" is scanned on an empty stack and UnknownOperator is thrown.
C2_Witness ==
    /\ ParseOver
    /\ s = <<"&">>
    /\ i = 1
    /\ exc = "UnknownOperator"

\* The define calls of the model.
AllDefineCalls == {MainDefines[k] : k \in 1..Len(MainDefines)} \cup Redefines

\* C3: define(c, fn) throws OperatorAlreadyDefined exactly when c is
\* registered or is a literal symbol, and a define that throws leaves the
\* registry as it was.
C3_DefineThrowsExactly ==
    [][ \A d \in AllDefineCalls :
          Define(d[1], d[2]) =>
            /\ exc' = "OperatorAlreadyDefined"
                 <=> (d[1] \in DOMAIN definedOperators \/ d[1] \in Literals)
            /\ exc' \in {"OperatorAlreadyDefined", "none"}
            /\ exc' = "OperatorAlreadyDefined"
                 => definedOperators' = definedOperators
      ]_vars

\* define('0', ...) has thrown OperatorAlreadyDefined.
C3_Witness ==
    /\ pc = "returned"
    /\ call = <<"define", "0", "zero165">>
    /\ exc = "OperatorAlreadyDefined"

Builtins == {"+", "-", "*", "/"}

\* Conventional postfix evaluation on a stack of integers: at an operator
\* the value pushed earlier is the left argument, the value pushed last the
\* right one.  ok is FALSE once a division by zero has been met.
RECURSIVE PostfixEval(_, _, _)
PostfixEval(str, k, vals) ==
    IF k > Len(str) THEN [ok |-> TRUE, val |-> vals[Len(vals)]]
    ELSE IF str[k] \in Literals
    THEN PostfixEval(str, k + 1,
                     Append(vals, CASE str[k] = "0" -> 0
                                    [] str[k] = "2" -> 2
                                    [] str[k] = "4" -> 4))
    ELSE LET right == vals[Len(vals)]
             left  == vals[Len(vals) - 1]
             rest  == SubSeq(vals, 1, Len(vals) - 2)
         IN  IF str[k] = "/" /\ right = 0 THEN [ok |-> FALSE, val |-> 0]
             ELSE PostfixEval(str, k + 1,
                    Append(rest, CASE str[k] = "+" -> left + right
                                   [] str[k] = "-" -> left - right
                                   [] str[k] = "*" -> left * right
                                   [] str[k] = "/" -> TruncDiv(left, right)))

WellFormed(str) == ~UnderflowsIn(str) /\ Height(str, Len(str)) = 1

\* calculate has returned from the well-formed string s of literals and
\* built-in operators.
CalculatedBuiltins ==
    /\ call = <<"calculate">>
    /\ pc \in {"returned", "crashed"}
    /\ WellFormed(s)
    /\ \A k \in 1..Len(s) : s[k] \in Literals \cup Builtins

\* C4: on a well-formed string of literals and built-in operators without a
\* division by zero, calculate returns the value of conventional postfix
\* evaluation (deeper operand left, last pushed operand right): "24-" is
\* -2, "42/" is 2, "42-2-" and "242--" are 0, "22+2-2*2/0-" is 2.
C4_PostfixValue ==
    CalculatedBuiltins /\ PostfixEval(s, 1, <<>>).ok =>
        /\ pc = "returned" /\ exc = "none" /\ ~undefined
        /\ value = PostfixEval(s, 1, <<>>).val
        /\ s = <<"2", "4", "-">> => value = -2
        /\ s = <<"4", "2", "/">> => value = 2
        /\ s = <<"4", "2", "-", "2", "-">> => value = 0
        /\ s = <<"2", "4", "2", "-", "-">> => value = 0
        /\ s = <<"2", "2", "+", "2", "-", "2", "*", "2", "/", "0", "-">>
             => value = 2

C4_Witness ==
    /\ CalculatedBuiltins
    /\ s = <<"2", "2", "+", "2", "-", "2", "*", "2", "/", "0", "-">>
    /\ value = 2

\* C5: no step of a parse, of parse or of calculate, successful or failing,
\* calls a rule or has a side effect: until parse has returned the buffer,
\* the trace of calls and the last value stay as they were; a call of parse
\* leaves them so until the caller calls the Lazy.
C5_ParseForcesNothing ==
    [][ (pc = "scan" \/ (call = <<"parse">> /\ pc # "returned"))
          => UNCHANGED <<buffer, trace, value, forced, undefined, forces>>
      ]_vars

\* parse has returned a Lazy that holds the side-effecting rule, and nothing
\* has been appended.
C5_Witness ==
    /\ call = <<"parse">>
    /\ pc = "returned"
    /\ lazy # Nil
    /\ "pomidor" \in RulesIn(lazy)
    /\ forces = 0
    /\ buffer = 0
    /\ trace = <<>>

\* The number of entries of the sequence seq that are in the set S.
CountIn(seq, S) == Cardinality({k \in 1..Len(seq) : seq[k] \in S})

\* The Lazy and the Lazies it holds, at any depth.
RECURSIVE Subterms(_)
Subterms(l) ==
    IF IsLit(l) THEN {l}
    ELSE {l} \cup Subterms(LeftOf(l)) \cup Subterms(RightOf(l))

\* The value one call of l returns and whether it is defined, under an
\* order of the build.
ValueOf(l) ==
    LET ord == CHOOSE o \in EvalOrders(RulesIn(l)) : TRUE
    IN  Force(l, ForceState(0), ord)

\* A force has just run to its end without undefined behaviour.
JustForced == forced # Nil /\ pc = "returned" /\ ~undefined

\* C6: in one force, at every 'L R ?' (rule a() ? b() : 0) whose L forces to
\* 0, neither R nor anything inside R is called; a force of such a root
\* returns 0; calculate("042P?") and calculate("042!42P$?") return 0 and
\* leave the buffer as it was.
C6_ShortCircuit ==
    JustForced =>
        /\ \A q \in Subterms(forced) :
             ( ~IsLit(q) /\ RuleOf(q) = "quest" /\ ValueOf(LeftOf(q)).val = 0 )
               => CountIn(trace, Positions(RightOf(q))) = 0
        /\ ( RuleOf(forced) = "quest" /\ ~IsLit(forced)
             /\ ValueOf(LeftOf(forced)).val = 0 )
             => value = 0
        /\ ( call = <<"calculate">>
             /\ s \in { <<"0", "4", "2", "P", "?">>,
                        <<"0", "4", "2", "!", "4", "2", "P", "$", "?">> } )
             => (value = 0 /\ buffer = 0)

C6_Witness ==
    /\ JustForced
    /\ call = <<"calculate">>
    /\ s = <<"0", "4", "2", "!", "4", "2", "P", "$", "?">>
    /\ RuleOf(forced) = "quest"
    /\ buffer = 0
    /\ value = 0

\* The rules that call each of their two operands once.
OnceRules == {"comma", "add", "sub", "mul", "div"}

\* l is built only from rules that call each operand once, from literals,
\* and from occurrences of P on two literals.
RECURSIVE OnceShape(_)
OnceShape(l) ==
    \/ IsLit(l)
    \/ /\ RuleOf(l) = "pomidor"
       /\ IsLit(LeftOf(l))
       /\ IsLit(RightOf(l))
    \/ /\ RuleOf(l) \in OnceRules
       /\ OnceShape(LeftOf(l))
       /\ OnceShape(RightOf(l))

\* The positions of the operator occurrences of l.
OperatorPositions(l) == {Pos(q) : q \in {x \in Subterms(l) : ~IsLit(x)}}

CountChar(str, c) == Cardinality({k \in 1..Len(str) : str[k] = c})

\* C7: one force of an expression built only from ',' and the built-ins over
\* literals and occurrences of P calls the rule of every operator occurrence
\* exactly once; a calculate of a string with k occurrences of P appends k
\* times, 42 times for the string of main.
C7_EachOperatorOnce ==
    (JustForced /\ OnceShape(forced)) =>
        /\ \A p \in OperatorPositions(forced) : CountIn(trace, {p}) = 1
        /\ call = <<"calculate">> => buffer = CountChar(s, "P")
        /\ (call = <<"calculate">> /\ s = MainPomidorString) => buffer = 42

C7_Witness ==
    /\ JustForced
    /\ OnceShape(forced)
    /\ call = <<"calculate">>
    /\ s = MainPomidorString
    /\ buffer = 42

\* Every call of a closure of l comes before every call of a closure of r.
AllBefore(l, r) ==
    \A j \in 1..Len(trace), k \in 1..Len(trace) :
        (trace[j] \in Positions(l) /\ trace[k] \in Positions(r)) => j < k

\* C8: one force of 'L R $' (rule manytimes) calls L exactly once, which
\* gives N, then calls R exactly N times (not at all when N <= 0), and
\* returns 0; calculate("42!42P$") appends 42 times.
C8_Manytimes ==
    (JustForced /\ ~IsLit(forced) /\ RuleOf(forced) = "manytimes") =>
        LET n == ValueOf(LeftOf(forced)).val
        IN  /\ CountIn(trace, {Pos(LeftOf(forced))}) = 1
            /\ CountIn(trace, {Pos(RightOf(forced))}) = IF n > 0 THEN n ELSE 0
            /\ AllBefore(LeftOf(forced), RightOf(forced))
            /\ value = 0
            /\ ( call = <<"calculate">>
                 /\ s = <<"4", "2", "!", "4", "2", "P", "$">> )
                 => buffer = 42

C8_Witness ==
    /\ JustForced
    /\ call = <<"calculate">>
    /\ s = <<"4", "2", "!", "4", "2", "P", "$">>
    /\ RuleOf(forced) = "manytimes"
    /\ CountIn(trace, {Pos(RightOf(forced))}) = 42
    /\ buffer = 42

\* The rules that call both of their operands.
BothRules == {"add", "sub", "mul", "div", "bang", "bang158", "comma"}

\* C9: in one force of a computation whose rule calls both operands, the
\* left operand and all it calls come before the right operand, for the
\* built-ins + - * / as for ','.
C9_LeftBeforeRight ==
    (forced # Nil /\ ~IsLit(forced) /\ RuleOf(forced) \in BothRules) =>
        AllBefore(LeftOf(forced), RightOf(forced))

\* The characters that built the operator occurrences of l, a Lazy parse
\* built from str.
SymbolsOf(l, str) == {str[p] : p \in Positions(l)} \ Literals

\* A step in which the caller calls again, after a define, the Lazy it has
\* called before without undefined behaviour.
ForcedAgainAfterDefine ==
    /\ lazy # Nil
    /\ lazy' = lazy
    /\ heldDefines > 0
    /\ forces >= 1
    /\ forces' = forces + 1
    /\ ~undefined

\* C10: a define call made while the caller holds a Lazy of parse leaves
\* that Lazy as it was, whether it adds a symbol or throws, and a force after
\* the define returns the value and appends as much as the force before; a
\* define of a symbol the Lazy uses throws OperatorAlreadyDefined and leaves
\* the rule of the symbol.
C10_DefineLeavesLazy ==
    [][ /\ \A d \in AllDefineCalls :
             (/\ lazy # Nil
              /\ call' = <<"define", d[1], d[2]>>
              /\ Define(d[1], d[2])) =>
               /\ lazy' = lazy
               /\ <<forced', value', buffer', trace'>>
                    = <<forced, value, buffer, trace>>
               /\ d[1] \in SymbolsOf(lazy, s) =>
                    /\ exc' = "OperatorAlreadyDefined"
                    /\ definedOperators'[d[1]] = definedOperators[d[1]]
        /\ ForcedAgainAfterDefine =>
             /\ ~undefined'
             /\ value' = value
             /\ buffer' * forces = buffer * (forces + 1)
      ]_vars

\* "42!" was parsed, define('!', ...) has thrown, and the Lazy forced
\* returns 42.
C10_Witness ==
    /\ pc = "returned"
    /\ lazy # Nil
    /\ s = <<"4", "2", "!">>
    /\ heldDefines = 1
    /\ call = <<"define", "!", "bang158">>
    /\ exc = "OperatorAlreadyDefined"
    /\ forces = 2
    /\ value = 42

\* C11: a define of a symbol that is neither a literal nor registered
\* returns normally, adds the entry symbol -> rule and leaves every other
\* entry; a scan of a registered symbol on two or more computations binds
\* the registered rule to (left, right) = (next to top, top); "42!" throws
\* UnknownOperator before define('!', a * 10 + b) and is 42 after it.
C11_DefineAdds ==
    [][ /\ \A d \in AllDefineCalls :
             (/\ call' = <<"define", d[1], d[2]>>
              /\ Define(d[1], d[2])
              /\ d[1] \notin Literals
              /\ d[1] \notin DOMAIN definedOperators) =>
               /\ exc' = "none"
               /\ DOMAIN definedOperators' = DOMAIN definedOperators \cup {d[1]}
               /\ definedOperators'[d[1]] = d[2]
               /\ \A x \in DOMAIN definedOperators :
                    definedOperators'[x] = definedOperators[x]
        /\ (/\ pc = "scan" /\ i <= Len(s)
            /\ s[i] \notin Literals
            /\ s[i] \in DOMAIN definedOperators
            /\ Len(stackOfLazy) >= 2) =>
             /\ pc' = "scan"
             /\ Len(stackOfLazy') = Len(stackOfLazy) - 1
             /\ ~IsLit(Top(stackOfLazy'))
             /\ RuleOf(Top(stackOfLazy')) = definedOperators[s[i]]
             /\ LeftOf(Top(stackOfLazy')) = Top(Pop(stackOfLazy))
             /\ RightOf(Top(stackOfLazy')) = Top(stackOfLazy)
        /\ (ParseOver' /\ s' = <<"4", "2", "!">>) =>
             IF "!" \in DOMAIN definedOperators'
             THEN /\ exc' = "none"
                  /\ (forced' # Nil /\ pc' = "returned") => value' = 42
             ELSE exc' = "UnknownOperator"
      ]_vars

\* calculate("42!") has returned 42 from a registry that holds '!'.
C11_Witness ==
    /\ call = <<"calculate">>
    /\ pc = "returned"
    /\ s = <<"4", "2", "!">>
    /\ "!" \in DOMAIN definedOperators
    /\ exc = "none"
    /\ forced # Nil
    /\ value = 42

\* C12: no step of define, parse or calculate, returning or throwing, takes
\* a symbol out of the registry or binds a registered symbol to another
\* rule.
C12_RegistryMonotonic ==
    [][ \A x \in DOMAIN definedOperators :
          /\ x \in DOMAIN definedOperators'
          /\ definedOperators'[x] = definedOperators[x]
      ]_vars

\* All the operators of main are registered, '!' with the rule of its first
\* define, after a define of '!' that threw while a Lazy was held.
C12_Witness ==
    /\ pc = "returned"
    /\ call = <<"define", "!", "bang158">>
    /\ Cardinality(DOMAIN definedOperators)
         = Len(ConstructorDefines) + Len(MainDefines)
    /\ definedOperators["!"] = "bang"
    /\ lazy # Nil
    /\ forces = 0

\* C13: every step of a parse or a calculate, from its entry to its return
\* or its throw of SyntaxError or UnknownOperator, and every call of the
\* Lazy, leaves the registry as it was.
C13_LookupLeavesRegistry ==
    [][ ( call'[1] \in {"parse", "calculate"} \/ pc \in {"scan", "force"} )
          => definedOperators' = definedOperators
      ]_vars

\* parse("42&") has thrown UnknownOperator on the registry that holds the
\* operators of main.
C13_Witness ==
    /\ pc = "returned"
    /\ call = <<"parse">>
    /\ s = <<"4", "2", "&">>
    /\ exc = "UnknownOperator"
    /\ DOMAIN definedOperators
         = DOMAIN Constructed \cup {MainDefines[k][1] : k \in 1..Len(MainDefines)}

\* parse(str) on the registry reg, from its k-th character on the stack stk:
\* the exception it throws, or "none" and the Lazy it returns.
RECURSIVE ParseAll(_, _, _, _)
ParseAll(reg, str, k, stk) ==
    IF k > Len(str)
    THEN IF WrongHeight(stk) THEN [exc |-> "SyntaxError", lazy |-> Nil]
         ELSE [exc |-> "none", lazy |-> Top(stk)]
    ELSE LET r == ScanChar(reg, stk, str[k], k)
         IN  IF r.exc # "none" THEN [exc |-> r.exc, lazy |-> Nil]
             ELSE ParseAll(reg, str, k + 1, r.stk)

\* What the last force left is what one call of l on an empty buffer leaves,
\* under some operand order of the build.
OneForceOf(l) ==
    \E ord \in EvalOrders(RulesIn(l)) :
        LET r == Force(l, ForceState(0), ord)
        IN  /\ trace = r.trace
            /\ buffer = r.buf
            /\ undefined = r.ub
            /\ ~r.ub => (value = r.val /\ pc = "returned")

\* C14: calculate(s) throws what parse(s) throws, and has then called
\* nothing; otherwise it has called the Lazy of parse(s) exactly once, and
\* has returned and done what one call of the Lazy parse(s) returned does.
C14_CalculateIsParseThenForce ==
    (ParseOver /\ pc \in {"returned", "crashed"}) =>
        LET p == ParseAll(definedOperators, s, 1, <<>>)
        IN  /\ exc = p.exc
            /\ exc # "none" =>
                 /\ pc = "returned" /\ lazy = Nil /\ forced = Nil
                 /\ forces = 0 /\ buffer = 0 /\ trace = <<>>
            /\ (exc = "none" /\ call = <<"calculate">>) =>
                 /\ forces = 1
                 /\ forced = p.lazy
                 /\ OneForceOf(p.lazy)
            /\ (exc = "none" /\ call = <<"parse">>) =>
                 /\ lazy = p.lazy
                 /\ forces = 0 => (forced = Nil /\ buffer = 0 /\ trace = <<>>)
                 /\ forces = 1 => (forced = p.lazy /\ OneForceOf(p.lazy))

\* calculate("42P42P,") has returned 0 and appended twice.
C14_Witness ==
    /\ call = <<"calculate">>
    /\ pc = "returned"
    /\ s = <<"4", "2", "P", "4", "2", "P", ",">>
    /\ exc = "none"
    /\ forces = 1
    /\ buffer = 2
    /\ value = 0

\* C15: a scan of '0', '2' or '4' throws nothing and pushes, on any stack
\* and under any registry (which holds entries for '0', '2' and '4'), a
\* computation that calls no rule and returns 0, 2 or 4; no Lazy holds a
\* rule of those entries; calculate("0"), calculate("2") and calculate("4")
\* are 0, 2 and 4.
C15_LiteralAlwaysLiteral ==
    [][ /\ (pc = "scan" /\ i <= Len(s) /\ s[i] \in Literals) =>
             /\ pc' = "scan" /\ exc' = "none" /\ i' = i + 1
             /\ Pop(stackOfLazy') = stackOfLazy
             /\ IsLit(Top(stackOfLazy'))
             /\ \A ord \in EvalOrders({}) :
                  LET r == Force(Top(stackOfLazy'), ForceState(0), ord)
                  IN  /\ r.val = CASE s[i] = "0" -> 0
                                   [] s[i] = "2" -> 2
                                   [] s[i] = "4" -> 4
                      /\ r.trace = <<i>> /\ r.buf = 0 /\ ~r.ub
        /\ lazy' # Nil => RulesIn(lazy') \cap PlaceholderRules = {}
        /\ (call' = <<"calculate">> /\ pc' = "returned" /\ Len(s') = 1
            /\ s'[1] \in Literals) =>
             /\ exc' = "none"
             /\ s'[1] = "0" => value' = 0
             /\ s'[1] = "2" => value' = 2
             /\ s'[1] = "4" => value' = 4
      ]_vars

\* calculate("4") has returned 4 from a registry that holds an entry for '4'.
C15_Witness ==
    /\ call = <<"calculate">>
    /\ pc = "returned"
    /\ s = <<"4">>
    /\ definedOperators["4"] = "add4"
    /\ forced = Lit("4", 1)
    /\ value = 4

\* The constructor has returned and nothing has been called since.
Constructing == call = <<"constructor">>

\* C16 as stated: right after construction the registry holds exactly the
\* four symbols + - * / and no other entry.
C16_OnlyBuiltins ==
    Constructing => DOMAIN definedOperators = Builtins

\* C16, amended: right after construction the registry holds + - * / with
\* the rules of addition, subtraction, multiplication and division, the
\* three literal symbols 0, 2 and 4 with the rules that reserve them, and no
\* other entry.
C16_BuiltinsAndLiterals ==
    Constructing =>
        /\ DOMAIN definedOperators = Builtins \cup Literals
        /\ definedOperators["+"] = "add" /\ definedOperators["-"] = "sub"
        /\ definedOperators["*"] = "mul" /\ definedOperators["/"] = "div"
        /\ \A c \in Literals : definedOperators[c] \in PlaceholderRules

\* The constructor has returned and the registry has seven entries.
C16_Witness ==
    /\ Constructing
    /\ pc = "idle"
    /\ Cardinality(DOMAIN definedOperators) = 7
    /\ "0" \in DOMAIN definedOperators

\* The caller has called forces >= 1 times the Lazy a parse returned, the
\* last time without undefined behaviour.
ForcedByCaller ==
    /\ call[1] \in {"parse", "define"}
    /\ pc = "returned"
    /\ lazy # Nil
    /\ forces >= 1
    /\ ~undefined

\* No rule of l has a side effect.
Pure(l) == RulesIn(l) \cap {"pomidor"} = {}

\* C17: after k >= 1 calls of the Lazy a parse returned, the last call has
\* called what one call calls, the buffer holds k times what one call
\* appends, and, for a Lazy without a side-effecting rule, the last call
\* returned the value one call returns.
C17_ForcesRepeat ==
    ForcedByCaller =>
        /\ forced = lazy
        /\ \E ord \in EvalOrders(RulesIn(lazy)) :
             LET r == Force(lazy, ForceState(0), ord)
             IN  /\ ~r.ub
                 /\ trace = r.trace
                 /\ buffer = forces * r.buf
                 /\ Pure(lazy) => value = r.val

\* The Lazy of parse("42P42P,") has been called twice and the buffer holds
\* four appends.
C17_Witness ==
    /\ ForcedByCaller
    /\ s = <<"4", "2", "P", "4", "2", "P", ",">>
    /\ forces = 2
    /\ buffer = 4

\* The Lazy of parse("42/") has been called twice and returned 2.
C17_WitnessPure ==
    /\ ForcedByCaller
    /\ s = <<"4", "2", "/">>
    /\ Pure(lazy)
    /\ forces = 2
    /\ value = 2

\* C18: a scan that reaches '1' while '1' is not registered throws
\* UnknownOperator, as "021" does; once '1' is registered with the rule that
\* returns 1, "021" parses, calculate("021") returns 1, and no force calls
\* an operand of an occurrence of '1'.
C18_DigitOneIsOperator ==
    [][ /\ ( pc = "scan" /\ i <= Len(s) /\ s[i] = "1"
             /\ "1" \notin DOMAIN definedOperators )
           => ( exc' = "UnknownOperator" /\ pc' = "returned" )
        /\ ( ParseOver' /\ s' = <<"0", "2", "1">> ) =>
             IF "1" \in DOMAIN definedOperators'
             THEN /\ exc' = "none"
                  /\ (forced' # Nil /\ pc' = "returned") =>
                       (value' = 1 /\ trace' = <<3>> /\ ~undefined')
             ELSE exc' = "UnknownOperator" /\ lazy' = Nil /\ forced' = Nil
        /\ JustForced' =>
             \A q \in Subterms(forced') :
               (~IsLit(q) /\ RuleOf(q) = "one") =>
                 CountIn(trace', Positions(LeftOf(q))
                                   \cup Positions(RightOf(q))) = 0
      ]_vars

\* calculate("021") has returned 1 and has called the closure of '1' only.
C18_Witness ==
    /\ call = <<"calculate">>
    /\ pc = "returned"
    /\ s = <<"0", "2", "1">>
    /\ exc = "none"
    /\ RuleOf(forced) = "one"
    /\ trace = <<3>>
    /\ value = 1

\* The positions of str whose character fails when scanned after a prefix
\* that did not: an unregistered character, or a registered operator on
\* fewer than two computations.
FailingAt(str, reg) ==
    {k \in 1..Len(str) :
       /\ str[k] \notin Literals
       /\ str[k] \notin DOMAIN reg \/ Height(str, k - 1) < 2}

\* The least of a non-empty set of positions.
First(S) == CHOOSE k \in S : \A j \in S : k <= j

\* C19: a parse that throws has stopped at the first character, from the
\* left, that fails, with UnknownOperator if that character is not
\* registered and SyntaxError if it is (an operator on fewer than two
\* computations), whatever follows it; it throws after the last character
\* only if none fails; "4+&" throws SyntaxError, "42&" and "&" throw
\* UnknownOperator.
C19_EarliestFailureDecides ==
    ParseOver =>
        LET fails == FailingAt(s, definedOperators)
        IN  /\ fails # {} =>
                 /\ i = First(fails)
                 /\ pc = "returned" /\ lazy = Nil
                 /\ exc = IF s[i] \in DOMAIN definedOperators
                          THEN "SyntaxError" ELSE "UnknownOperator"
            /\ (fails = {} /\ exc # "none") =>
                 (i = Len(s) + 1 /\ exc = "SyntaxError" /\ Height(s, Len(s)) # 1)
            /\ s = <<"4", "+", "&">> => exc = "SyntaxError"
            /\ s \in {<<"4", "2", "&">>, <<"&">>} => exc = "UnknownOperator"

\* parse("4+&") has thrown SyntaxError at '+'.
C19_Witness ==
    /\ ParseOver
    /\ s = <<"4", "+", "&">>
    /\ i = 2
    /\ exc = "SyntaxError"

\* C20: whenever parse has scanned a non-empty prefix without throwing, the
\* stack holds as many computations as the prefix has literals less its
\* operators, and at least one; a scan of a literal that does not throw
\* leaves one computation more, a scan of an operator one less.
C20_StackHeight ==
    [][ /\ (pc' = "scan" /\ i' > 1) =>
             /\ Len(stackOfLazy') = Height(s', i' - 1)
             /\ Len(stackOfLazy') >= 1
        /\ (pc = "scan" /\ pc' = "scan" /\ i' = i + 1) =>
             Len(stackOfLazy') = IF s[i] \in Literals
                                 THEN Len(stackOfLazy) + 1
                                 ELSE Len(stackOfLazy) - 1
      ]_vars

\* parse has scanned "242-" of "242--" and the stack holds two computations.
C20_Witness ==
    /\ pc = "scan"
    /\ s = <<"2", "4", "2", "-", "-">>
    /\ i = 5
    /\ Len(stackOfLazy) = 2
    /\ ~IsLit(Top(stackOfLazy))

====
